---- MODULE Spec2Model ----
(***************************************************************************)
(* PingPong operator (pingpong-operator/app/operator.py): the create,      *)
(* update and delete handlers of the PingPong custom resource, run against *)
(* a cluster object store keyed by (kind, namespace, name).                *)
(*                                                                         *)
(* Python values: None is the empty tuple, any other value v is <<v>>.     *)
(* Python strings that the code builds by formatting or concatenation are  *)
(* sequences of one-character strings; strings the code only passes around *)
(* (namespace, image) are TLA+ strings.                                    *)
(***************************************************************************)
EXTENDS Integers, Sequences, FiniteSets, TLC

\* ------------------------------------------------------------------ bounds
\* largest replica count a custom resource asks for
MaxReplicas == 4
\* handler invocations (new events, retries and duplicate deliveries) per instance
MaxEvents == 3
\* largest replica count and pod ordinal the workload is run with
MaxPods == 3

\* --------------------------------------------------------------- constants
CONTAINER_PORT == 80
DefaultReplicas == 1
DefaultTimer == 30
DefaultImage == "6y6en/ping-pong:latest"
CONFIG_KEY == "config.yaml"

\* e.status of an ApiException: the two statuses the handlers look for, and the others
HTTP_CONFLICT == 409
HTTP_NOT_FOUND == 404
OtherStatuses == { 500 }

None == << >>
Some(v) == << v >>

\* ------------------------------------------------------------------ strings
Foo == << "f", "o", "o" >>
Bar == << "b", "a", "r" >>
DigitChar == << "0", "1", "2", "3", "4", "5", "6", "7", "8", "9" >>

RECURSIVE Digits(_)
\* str(n) of a non-negative integer
Digits(n) == IF n < 10 THEN << DigitChar[n + 1] >>
             ELSE Digits(n \div 10) \o << DigitChar[(n % 10) + 1] >>

\* f"{v}" of a Python value: an integer in decimal, None as "None"
PyFormat(v) == IF v = None THEN << "N", "o", "n", "e" >> ELSE Digits(v[1])

\* f"replicas: {replicas}\ntimer: {timer}\n"
ConfigText(replicas, timer) ==
    << "r", "e", "p", "l", "i", "c", "a", "s", ":", " " >> \o PyFormat(replicas) \o << "\n" >>
    \o << "t", "i", "m", "e", "r", ":", " " >> \o PyFormat(timer) \o << "\n" >>

\* a Service name that leaves the resource's name out
SvcName_Fixed(name) == << "p", "i", "n", "g", "p", "o", "n", "g", "-", "s", "v", "c" >>

\* f"{name}-svc", f"{name}-sts", f"{name}-cm"
SvcName(name) == name \o << "-", "s", "v", "c" >>
StsName(name) == name \o << "-", "s", "t", "s" >>
CmName(name) == name \o << "-", "c", "m" >>

\* ---------------------------------------------------------- custom resource
Namespaces == { "default", "prod" }
Names == { Foo, Bar }
\* a resource instance is (namespace, name)
I0 == << "default", Foo >>
I1 == << "prod", Bar >>
Instances == { I0, << "default", Bar >>, << "prod", Foo >>, << "prod", Bar >> }
NsOf(i) == i[1]
NameOf(i) == i[2]

ReplicaValues == { None, Some(2), Some(MaxReplicas) }
TimerValues == { None, Some(45) }
ImageValues == { None, Some("ping-pong:v2") }
\* the spec of a custom resource: a field the resource omits is None
Specs == [ replicas : ReplicaValues, timer : TimerValues, image : ImageValues ]

\* the specs instance i is given: every spec for I0, and for the instances that
\* run beside one another a spec that omits every field and one that names them all
FewSpecs == { [ replicas |-> None, timer |-> None, image |-> None ],
              [ replicas |-> Some(2), timer |-> Some(45), image |-> Some("ping-pong:v2") ] }
SpecsOf(i) == IF i = I0 THEN Specs ELSE FewSpecs

\* spec.get(key, default)
SpecGet(spec, key, default) == IF spec[key] = None THEN default ELSE spec[key]

\* int(x) of an integer
PyInt(v) == v

\* ---------------------------------------------------------------- manifests
Labels(name) == [ app |-> name ]

configmap_manifest(name, namespace, replicas, timer, labels) ==
    [ kind |-> "ConfigMap", name |-> name, namespace |-> namespace, labels |-> labels,
      data |-> (CONFIG_KEY :> ConfigText(replicas, timer)) ]

service_manifest(name, namespace, labels) ==
    [ kind |-> "Service", name |-> name, namespace |-> namespace, labels |-> labels,
      cluster_ip |-> "None", selector |-> labels,
      port |-> CONTAINER_PORT, target_port |-> CONTAINER_PORT ]

\* a StatefulSet manifest whose pod template is labelled with the StatefulSet's own name
statefulset_manifest_OwnName(name, service_name, configmap_name, namespace, labels, replicas, image) ==
    [ kind |-> "StatefulSet", name |-> name, namespace |-> namespace, labels |-> labels,
      service_name |-> service_name, replicas |-> replicas,
      selector |-> labels, template_labels |-> [ app |-> name ],
      image |-> image, env_service |-> service_name,
      container_port |-> CONTAINER_PORT, volume_config_map |-> configmap_name ]

statefulset_manifest(name, service_name, configmap_name, namespace, labels, replicas, image) ==
    [ kind |-> "StatefulSet", name |-> name, namespace |-> namespace, labels |-> labels,
      service_name |-> service_name, replicas |-> replicas,
      selector |-> labels, template_labels |-> labels,
      image |-> image, env_service |-> service_name,
      container_port |-> CONTAINER_PORT, volume_config_map |-> configmap_name ]

\* a ReplicaSet patch that carries the image alone
ss_body_ImageOnly(replicas, image) == [ image |-> image ]
\* a ReplicaSet patch that resets the replica count
ss_body_ResetReplicas(replicas, image) == [ replicas |-> Some(DefaultReplicas), image |-> image ]

\* the ReplicaSet patch of update_fn: replica count and container image
ss_body(replicas, image) == [ replicas |-> replicas, image |-> image ]
\* a ConfigObject patch that serializes the default replica count
cm_body_DefaultReplicas(replicas, timer) ==
    [ data |-> (CONFIG_KEY :> ConfigText(Some(DefaultReplicas), timer)) ]
\* the ConfigObject patch of update_fn: the serialized replicas and timer
cm_body(replicas, timer) == [ data |-> (CONFIG_KEY :> ConfigText(replicas, timer)) ]

\* ------------------------------------------------------------ cluster store
\* The API server's object store: a function from (kind, namespace, name) to
\* the stored object.  An answer is None when the call returns, Some(status)
\* when it raises ApiException with that status.
Key(obj) == << obj.kind, obj.namespace, obj.name >>
Errors == { Some(s) : s \in OtherStatuses }

CreateAnswers(c, key) ==
    IF key \in DOMAIN c THEN { Some(HTTP_CONFLICT) } \cup Errors ELSE { None } \cup Errors
\* a create that overwrites the object it finds
ApplyCreate_Replace(c, body, ans) ==
    IF ans \in { None, Some(HTTP_CONFLICT) } THEN (Key(body) :> body) @@ c ELSE c
ApplyCreate(c, body, ans) ==
    IF ans = None THEN (Key(body) :> body) @@ c ELSE c

PatchAnswers(c, key) ==
    IF key \in DOMAIN c THEN { None, Some(HTTP_CONFLICT) } \cup Errors
    ELSE { Some(HTTP_NOT_FOUND) } \cup Errors
\* a merge patch: the fields the body names replace the stored ones
Merge(obj, body) == [ f \in DOMAIN obj |-> IF f \in DOMAIN body THEN body[f] ELSE obj[f] ]
ApplyPatch(c, key, body, ans) ==
    IF ans = None THEN [ c EXCEPT ![key] = Merge(@, body) ] ELSE c

DeleteAnswers(c, key) ==
    IF key \in DOMAIN c THEN { None } \cup Errors ELSE { Some(HTTP_NOT_FOUND) } \cup Errors
ApplyDelete(c, key, ans) ==
    IF ans = None THEN [ k \in DOMAIN c \ { key } |-> c[k] ] ELSE c

\* ----------------------------------------------------------- workload pod
\* A Python value of the workload: an integer, a string or None.
IntVal(n) == [ type |-> "int", int |-> n, str |-> << >> ]
StrVal(cs) == [ type |-> "str", int |-> 0, str |-> cs ]
NoneVal == [ type |-> "none", int |-> 0, str |-> << >> ]

ReplicasKey == << "r", "e", "p", "l", "i", "c", "a", "s" >>
TimerKey == << "t", "i", "m", "e", "r" >>
\* config = {"replicas": 0, "timer": 6000}
DefaultConfig == (ReplicasKey :> IntVal(0)) @@ (TimerKey :> IntVal(6000))

\* the first position of ch in cs, 0 when there is none
IndexOf(cs, ch) ==
    IF \E k \in 1 .. Len(cs) : cs[k] = ch
    THEN CHOOSE k \in 1 .. Len(cs) : cs[k] = ch /\ \A m \in 1 .. (k - 1) : cs[m] # ch
    ELSE 0
\* the last position of ch in cs, 0 when there is none
LastIndexOf(cs, ch) ==
    IF \E k \in 1 .. Len(cs) : cs[k] = ch
    THEN CHOOSE k \in 1 .. Len(cs) : cs[k] = ch /\ \A m \in (k + 1) .. Len(cs) : cs[m] # ch
    ELSE 0
DigitValue(ch) == (CHOOSE d \in 1 .. 10 : DigitChar[d] = ch) - 1
AllDigits(cs) == cs # << >> /\ \A k \in 1 .. Len(cs) : \E d \in 1 .. 10 : DigitChar[d] = cs[k]
RECURSIVE ToInt(_)
\* int(cs) of a string of decimal digits
ToInt(cs) == IF Len(cs) = 1 THEN DigitValue(cs[1])
             ELSE 10 * ToInt(SubSeq(cs, 1, Len(cs) - 1)) + DigitValue(cs[Len(cs)])

\* yaml.safe_load of a plain scalar: digits are an integer, nothing is None,
\* anything else (such as the word None) is a string
YamlScalar(cs) ==
    IF cs = << >> THEN NoneVal ELSE IF AllDigits(cs) THEN IntVal(ToInt(cs)) ELSE StrVal(cs)
RECURSIVE YamlMapping(_)
\* yaml.safe_load of the lines "key: value\n" of a block mapping
YamlMapping(text) ==
    IF text = << >> THEN << >>
    ELSE LET eol == IndexOf(text, "\n")
             line == SubSeq(text, 1, eol - 1)
             colon == IndexOf(line, ":")
         IN  YamlMapping(SubSeq(text, eol + 1, Len(text)))
             @@ (SubSeq(line, 1, colon - 1) :> YamlScalar(SubSeq(line, colon + 2, Len(line))))
\* d.get(key)
DictGet(d, key) == IF key \in DOMAIN d THEN d[key] ELSE NoneVal

\* load_config: a file that cannot be read or that is empty leaves config as it is
load_config(config, file) ==
    IF file = None THEN config
    ELSE IF YamlMapping(file[1]) = << >> THEN config ELSE YamlMapping(file[1])

\* the peer address of the ping loop:
\* f"http://{pod_prefix}-{i}{'.'+service_name if service_name else ''}/ping"
PingUrl(pod_prefix, i, service_name) ==
    << "h", "t", "t", "p", ":", "/", "/" >> \o pod_prefix \o << "-" >> \o Digits(i)
    \o (IF service_name # << >> THEN << "." >> \o service_name ELSE << >>)
    \o << "/", "p", "i", "n", "g" >>

\* what the pod is started with: HOSTNAME, HEADLESS_SERVICE and the mounted file
Hostnames == { StsName(Foo) \o << "-" >> \o Digits(k) : k \in 0 .. MaxPods }
ServiceEnvs == { None, Some(SvcName(Foo)) }
ConfigFiles == { None, Some(<< >>), Some(ConfigText(None, None)) }
               \cup { Some(ConfigText(Some(r), Some(DefaultTimer))) : r \in 0 .. MaxPods }

ServerOff ==
    [ hostname |-> << >>, env_service |-> None, file |-> None, config |-> DefaultConfig,
      pod_prefix |-> << >>, pod_number |-> 0, service_name |-> << >>,
      pc |-> "off", replicas |-> NoneVal, timer |-> NoneVal, i |-> 0, pinged |-> << >> ]

\* -------------------------------------------------------------------- state
VARIABLES
    cluster,   \* the object store
    phase,     \* per instance: "absent" or "live", whether the custom resource exists
    spec,      \* per instance: the spec handed to the current (or last) handler
    diff,      \* per instance: the spec fields the last update event reports as changed
    kind,      \* per instance: "none", "create", "update" or "delete", the handler
    pc,        \* per instance: the handler's position, or how it ended
    cause,     \* per instance: why the handler was started
    result,    \* per instance: what the handler returned
    log,       \* per instance: the API calls of the current pass, with their answers
    pre,       \* per instance: the object store when the current pass started
    events,    \* per instance: handler invocations so far
    server     \* one workload pod (pingpong-server/server/main.py): its globals and its ping thread

vars == << cluster, phase, spec, diff, kind, pc, cause, result, log, pre, events, server >>

Running == { "create_svc", "create_cm", "create_sts", "patch_sts", "patch_cm",
             "delete_svc", "delete_sts", "delete_cm" }
Ended == { "returned", "raised", "crashed" }

EmptyCluster == [ k \in {} |-> None ]
Spec0 == [ replicas |-> None, timer |-> None, image |-> None ]

InitCommon ==
    /\ cluster = EmptyCluster
    /\ phase = [ i \in Instances |-> "absent" ]
    /\ spec = [ i \in Instances |-> Spec0 ]
    /\ diff = [ i \in Instances |-> {} ]
    /\ kind = [ i \in Instances |-> "none" ]
    /\ pc = [ i \in Instances |-> "idle" ]
    /\ cause = [ i \in Instances |-> "none" ]
    /\ result = [ i \in Instances |-> None ]
    /\ log = [ i \in Instances |-> << >> ]
    /\ pre = [ i \in Instances |-> EmptyCluster ]

\* one resource instance receives events
Init ==
    /\ InitCommon
    /\ events = [ i \in Instances |-> IF i = I0 THEN 0 ELSE MaxEvents ]
    /\ server = ServerOff

\* two distinct resource instances receive events: I1, and beside it an
\* instance of the same name in another namespace or of another name in the
\* same namespace, which is delivered one event
InitPair ==
    /\ InitCommon
    /\ \E b \in { << "default", Bar >>, << "prod", Foo >> } :
           events = [ i \in Instances |->
                        IF i = I1 THEN 1 ELSE IF i = b THEN MaxEvents - 1 ELSE MaxEvents ]
    /\ server = ServerOff

\* ------------------------------------------------------------- event source
\* the fields of the spec an update event reports as changed
Diff(old, new) == { f \in DOMAIN new : old[f] # new[f] }

\* a create handler that starts with the ConfigMap
FirstStep_ConfigMapFirst(k) == CASE k = "create" -> "create_cm"
                                 [] k = "update" -> "patch_sts"
                                 [] k = "delete" -> "delete_svc"
FirstStep(k) == CASE k = "create" -> "create_svc"
                  [] k = "update" -> "patch_sts"
                  [] k = "delete" -> "delete_svc"

\* the framework invokes handler k of instance i with spec s
Invoke(i, k, s, why) ==
    /\ events[i] < MaxEvents
    /\ events' = [ events EXCEPT ![i] = @ + 1 ]
    /\ kind' = [ kind EXCEPT ![i] = k ]
    /\ spec' = [ spec EXCEPT ![i] = s ]
    /\ pc' = [ pc EXCEPT ![i] = FirstStep(k) ]
    /\ cause' = [ cause EXCEPT ![i] = why ]
    /\ result' = [ result EXCEPT ![i] = None ]
    /\ log' = [ log EXCEPT ![i] = << >> ]
    /\ pre' = [ pre EXCEPT ![i] = cluster ]
    /\ UNCHANGED << cluster, server >>

\* a custom resource is created: the create handler runs
NewCreate(i) ==
    /\ phase[i] = "absent"
    /\ pc[i] \notin Running
    /\ \E s \in SpecsOf(i) : Invoke(i, "create", s, "new")
    /\ phase' = [ phase EXCEPT ![i] = "live" ]
    /\ diff' = [ diff EXCEPT ![i] = {} ]

\* the resource's spec changes after a handler succeeded: the update handler runs
NewUpdate(i) ==
    /\ phase[i] = "live"
    /\ pc[i] = "returned"
    /\ \E s \in SpecsOf(i) \ { spec[i] } :
        /\ Invoke(i, "update", s, "new")
        /\ diff' = [ diff EXCEPT ![i] = Diff(spec[i], s) ]
    /\ UNCHANGED phase

\* the resource is deleted: the delete handler runs
NewDelete(i) ==
    /\ phase[i] = "live"
    /\ pc[i] \in Ended
    /\ kind[i] # "delete"
    /\ Invoke(i, "delete", spec[i], "new")
    /\ UNCHANGED << phase, diff >>

\* a handler that raised is invoked again with the same event
Retry(i) ==
    /\ pc[i] = "raised"
    /\ Invoke(i, kind[i], spec[i], "retry")
    /\ UNCHANGED << phase, diff >>

\* the operator restarts after a crash and the interrupted event is delivered again
Restart(i) ==
    /\ pc[i] = "crashed"
    /\ Invoke(i, kind[i], spec[i], "restart")
    /\ UNCHANGED << phase, diff >>

\* at-least-once delivery: an event whose handler returned is delivered once more
Redeliver(i) ==
    /\ pc[i] = "returned"
    /\ Invoke(i, kind[i], spec[i], "duplicate")
    /\ UNCHANGED << phase, diff >>

\* the operator process dies between two API calls of a handler
Crash(i) ==
    /\ pc[i] \in Running
    /\ pc' = [ pc EXCEPT ![i] = "crashed" ]
    /\ UNCHANGED << cluster, phase, spec, diff, kind, cause, result, log, pre, events, server >>

\* ---------------------------------------------------------------- handlers
Call(op, key, body, ans) == [ op |-> op, key |-> key, body |-> body, answer |-> ans ]

\* create_fn, lines 113-121: the values the manifests are built from
CreateReplicas(s) == PyInt(SpecGet(s, "replicas", Some(DefaultReplicas)))
CreateTimer(s) == PyInt(SpecGet(s, "timer", Some(DefaultTimer)))
CreateImage(s) == SpecGet(s, "image", Some(DefaultImage))

\* update_fn, lines 164-166: spec.get(key) without a default
UpdateImage(s) == SpecGet(s, "image", None)
UpdateReplicas(s) == SpecGet(s, "replicas", None)
UpdateTimer(s) == SpecGet(s, "timer", None)

\* the value create_fn returns
DerivedNames(name) ==
    [ svc_name |-> SvcName(name), sts_name |-> StsName(name), cm_name |-> CmName(name) ]

\* create_fn with 409 raised like any other status
AfterCreate_Raise409(ans, next) == IF ans = None THEN next ELSE "raised"
\* create_fn taking 409 on one object to mean the whole set exists
AfterCreate_Return409(ans, next) ==
    IF ans = None THEN next
    ELSE IF ans[1] = HTTP_CONFLICT THEN "returned" ELSE "raised"
\* create_fn logging every error and going on, as update_fn does
AfterCreate_Swallow(ans, next) == next

\* except ApiException in create_fn: status 409 is passed over, any other is raised again
AfterCreate(ans, next) ==
    IF ans = None THEN next
    ELSE IF ans[1] = HTTP_CONFLICT THEN next ELSE "raised"

\* update_fn with both patches under one try: the first error ends the handler
AfterPatch_OneTry(ans, next) == IF ans = None THEN next ELSE "returned"
\* update_fn raising a patch error again, as create_fn does
AfterPatch_Raise(ans, next) == IF ans = None THEN next ELSE "raised"

\* except ApiException in update_fn: logged, the handler goes on
AfterPatch(ans, next) == next

\* delete_fn raising 404 instead of passing over it
AfterDelete_Raise404(ans, next) ==
    IF ans = None THEN next
    ELSE IF ans[1] = HTTP_NOT_FOUND THEN "raised" ELSE next
\* delete_fn raising the errors other than 404, as create_fn does
AfterDelete_RaiseOther(ans, next) ==
    IF ans = None THEN next
    ELSE IF ans[1] = HTTP_NOT_FOUND THEN next ELSE "raised"

\* except ApiException in delete_fn: logged whatever the status, the loop goes on
AfterDelete(ans, next) ==
    IF ans = None THEN next
    ELSE IF ans[1] = HTTP_NOT_FOUND THEN next ELSE next

\* one create call of create_fn and the handling of its answer
CreateStep(i, body, next) ==
    \E ans \in CreateAnswers(cluster, Key(body)) :
        /\ cluster' = ApplyCreate(cluster, body, ans)
        /\ log' = [ log EXCEPT ![i] = Append(@, Call("create", Key(body), body, ans)) ]
        /\ pc' = [ pc EXCEPT ![i] = AfterCreate(ans, next) ]
        /\ result' = [ result EXCEPT ![i] =
                         IF AfterCreate(ans, next) = "returned"
                         THEN Some(DerivedNames(NameOf(i))) ELSE None ]
        /\ UNCHANGED << phase, spec, diff, kind, cause, pre, events, server >>

\* create_fn, 1) create headless service
CreateService(i) ==
    /\ pc[i] = "create_svc"
    /\ CreateStep(i, service_manifest(SvcName(NameOf(i)), NsOf(i), Labels(NameOf(i))),
                  "create_cm")

\* create_fn, 2) create configmap
CreateConfigMap(i) ==
    /\ pc[i] = "create_cm"
    /\ CreateStep(i, configmap_manifest(CmName(NameOf(i)), NsOf(i), CreateReplicas(spec[i]),
                                        CreateTimer(spec[i]), Labels(NameOf(i))),
                  "create_sts")

\* create_fn, 3) create statefulset, then return the names
CreateStatefulSet(i) ==
    /\ pc[i] = "create_sts"
    /\ CreateStep(i, statefulset_manifest(StsName(NameOf(i)), SvcName(NameOf(i)),
                                          CmName(NameOf(i)), NsOf(i), Labels(NameOf(i)),
                                          CreateReplicas(spec[i]), CreateImage(spec[i])),
                  "returned")

\* an update handler that creates the object a patch did not find
PatchStep_CreateIfMissing(i, key, body, next) ==
    \E ans \in PatchAnswers(cluster, key) :
        /\ cluster' = IF ans = Some(HTTP_NOT_FOUND) THEN (key :> body) @@ cluster
                      ELSE ApplyPatch(cluster, key, body, ans)
        /\ log' = [ log EXCEPT ![i] = Append(@, Call("patch", key, body, ans)) ]
        /\ pc' = [ pc EXCEPT ![i] = AfterPatch(ans, next) ]
        /\ UNCHANGED << phase, spec, diff, kind, cause, result, pre, events, server >>

\* one patch call of update_fn and the handling of its answer
PatchStep(i, key, body, next) ==
    \E ans \in PatchAnswers(cluster, key) :
        /\ cluster' = ApplyPatch(cluster, key, body, ans)
        /\ log' = [ log EXCEPT ![i] = Append(@, Call("patch", key, body, ans)) ]
        /\ pc' = [ pc EXCEPT ![i] = AfterPatch(ans, next) ]
        /\ UNCHANGED << phase, spec, diff, kind, cause, result, pre, events, server >>

\* update_fn: patch the StatefulSet
PatchStatefulSet(i) ==
    /\ pc[i] = "patch_sts"
    /\ PatchStep(i, << "StatefulSet", NsOf(i), StsName(NameOf(i)) >>,
                 ss_body(UpdateReplicas(spec[i]), UpdateImage(spec[i])), "patch_cm")

\* update_fn: patch the ConfigMap, then return
PatchConfigMap(i) ==
    /\ pc[i] = "patch_cm"
    /\ PatchStep(i, << "ConfigMap", NsOf(i), CmName(NameOf(i)) >>,
                 cm_body(UpdateReplicas(spec[i]), UpdateTimer(spec[i])), "returned")

\* delete_fn naming the StatefulSet by another suffix than create_fn
DeleteTargets_OtherSuffix(i) ==
    << << "Service", NsOf(i), SvcName(NameOf(i)) >>,
       << "StatefulSet", NsOf(i), NameOf(i) \o << "-", "s", "s" >> >>,
       << "ConfigMap", NsOf(i), CmName(NameOf(i)) >> >>

\* delete_fn: the objects the loop deletes, in its order
DeleteTargets(i) ==
    << << "Service", NsOf(i), SvcName(NameOf(i)) >>,
       << "StatefulSet", NsOf(i), StsName(NameOf(i)) >>,
       << "ConfigMap", NsOf(i), CmName(NameOf(i)) >> >>
DeletePcs == << "delete_svc", "delete_sts", "delete_cm", "returned" >>

\* delete_fn: one round of the loop; after the last one the handler returns
\* and the custom resource is gone
DeleteStep(i) ==
    \E n \in 1 .. 3 :
        /\ pc[i] = DeletePcs[n]
        /\ \E ans \in DeleteAnswers(cluster, DeleteTargets(i)[n]) :
            /\ cluster' = ApplyDelete(cluster, DeleteTargets(i)[n], ans)
            /\ log' = [ log EXCEPT ![i] = Append(@, Call("delete", DeleteTargets(i)[n], None, ans)) ]
            /\ pc' = [ pc EXCEPT ![i] = AfterDelete(ans, DeletePcs[n + 1]) ]
            /\ phase' = [ phase EXCEPT ![i] =
                            IF AfterDelete(ans, DeletePcs[n + 1]) = "returned" THEN "absent" ELSE @ ]
        /\ UNCHANGED << spec, diff, kind, cause, result, pre, events, server >>

\* ------------------------------------------------------ workload pod steps
\* start_background_thread: define_cluster, then the ping thread starts
DefineCluster ==
    /\ server.pc = "import"
    /\ LET dash == LastIndexOf(server.hostname, "-")
       IN  server' = [ server EXCEPT
                 !.service_name = IF server.env_service = None THEN << >> ELSE server.env_service[1],
                 !.pod_prefix = SubSeq(server.hostname, 1, dash - 1),
                 !.pod_number = ToInt(SubSeq(server.hostname, dash + 1, Len(server.hostname))),
                 !.pc = "load" ]
    /\ UNCHANGED << cluster, phase, spec, diff, kind, pc, cause, result, log, pre, events >>

\* ping_loop: load_config, read replicas and timer, enter the for loop;
\* range(0, replicas) of a value that is no integer ends the thread
LoadConfig ==
    /\ server.pc = "load"
    /\ LET config == load_config(server.config, server.file)
       IN  server' = [ server EXCEPT
                 !.config = config,
                 !.replicas = DictGet(config, ReplicasKey),
                 !.timer = DictGet(config, TimerKey),
                 !.i = 0,
                 !.pinged = << >>,
                 !.pc = IF DictGet(config, ReplicasKey).type = "int" THEN "for" ELSE "dead" ]
    /\ UNCHANGED << cluster, phase, spec, diff, kind, pc, cause, result, log, pre, events >>

\* a ping loop without "if i == pod_number: continue"
PingNext_PingSelf ==
    /\ server.pc = "for"
    /\ server.i < server.replicas.int
    /\ server' = [ server EXCEPT
             !.i = @ + 1,
             !.pinged = Append(@, PingUrl(server.pod_prefix, server.i, server.service_name)) ]
    /\ UNCHANGED << cluster, phase, spec, diff, kind, pc, cause, result, log, pre, events >>

\* ping_loop: one round of for i in range(0, replicas): skip the pod's own
\* ordinal, address the others
PingNext ==
    /\ server.pc = "for"
    /\ server.i < server.replicas.int
    /\ server' = [ server EXCEPT
             !.i = @ + 1,
             !.pinged = IF server.i = server.pod_number THEN @
                        ELSE Append(@, PingUrl(server.pod_prefix, server.i, server.service_name)) ]
    /\ UNCHANGED << cluster, phase, spec, diff, kind, pc, cause, result, log, pre, events >>

\* ping_loop: the for loop is over, stop_event.wait(timer), then the next pass;
\* wait(None) never returns and wait of a string ends the thread
Wait ==
    /\ server.pc = "for"
    /\ server.i >= server.replicas.int
    /\ server' = [ server EXCEPT
             !.pc = CASE server.timer.type = "int" -> "waited"
                      [] server.timer.type = "none" -> "blocked"
                      [] OTHER -> "dead" ]
    /\ UNCHANGED << cluster, phase, spec, diff, kind, pc, cause, result, log, pre, events >>

\* ping_loop: the wait is over, the next pass starts
NextPass ==
    /\ server.pc = "waited"
    /\ server' = [ server EXCEPT !.pc = "load" ]
    /\ UNCHANGED << cluster, phase, spec, diff, kind, pc, cause, result, log, pre, events >>

\* GET /reload: load_config
Reload ==
    /\ server.pc \notin { "off", "import" }
    /\ server' = [ server EXCEPT !.config = load_config(server.config, server.file) ]
    /\ UNCHANGED << cluster, phase, spec, diff, kind, pc, cause, result, log, pre, events >>

\* the mounted config.yaml changes
Remount ==
    /\ server.pc \notin { "off", "import" }
    /\ \E f \in ConfigFiles : server' = [ server EXCEPT !.file = f ]
    /\ UNCHANGED << cluster, phase, spec, diff, kind, pc, cause, result, log, pre, events >>

\* ------------------------------------------------------------ specification
Next ==
    \E i \in Instances :
        \/ NewCreate(i)
        \/ NewUpdate(i)
        \/ NewDelete(i)
        \/ Retry(i)
        \/ Restart(i)
        \/ Redeliver(i)
        \/ Crash(i)
        \/ CreateService(i)
        \/ CreateConfigMap(i)
        \/ CreateStatefulSet(i)
        \/ PatchStatefulSet(i)
        \/ PatchConfigMap(i)
        \/ DeleteStep(i)

Spec == Init /\ [][Next]_vars

\* two instances whose handlers interleave
SpecPair == InitPair /\ [][Next]_vars

\* another client of the API server deletes a dependent object of a resource
\* whose create handler has returned
ForeignDelete(i) ==
    /\ phase[i] = "live"
    /\ kind[i] = "create"
    /\ pc[i] = "returned"
    /\ \E n \in 1 .. 3 :
          /\ DeleteTargets(i)[n] \in DOMAIN cluster
          /\ cluster' = ApplyDelete(cluster, DeleteTargets(i)[n], None)
    /\ UNCHANGED << phase, spec, diff, kind, pc, cause, result, log, pre, events, server >>

NextDrift ==
    \E i \in Instances :
        \/ NewCreate(i)
        \/ NewUpdate(i)
        \/ Retry(i)
        \/ Redeliver(i)
        \/ CreateService(i)
        \/ CreateConfigMap(i)
        \/ CreateStatefulSet(i)
        \/ PatchStatefulSet(i)
        \/ PatchConfigMap(i)
        \/ ForeignDelete(i)

\* the create and update handlers in a cluster whose objects other clients
\* may delete
SpecDrift == Init /\ [][NextDrift]_vars

\* The create handler alone: one resource is created and its event is
\* delivered, retried after an error, delivered again after a crash or a
\* duplicate; nothing updates or deletes.
NextCreate ==
    \E i \in Instances :
        \/ NewCreate(i)
        \/ Retry(i)
        \/ Restart(i)
        \/ Redeliver(i)
        \/ Crash(i)
        \/ CreateService(i)
        \/ CreateConfigMap(i)
        \/ CreateStatefulSet(i)

SpecCreate == Init /\ [][NextCreate]_vars

\* The API server recovers: by the last delivery the event source still has
\* for instance i, a create call answers Created or AlreadyExists only.
Recovered(i) ==
    events[i] = MaxEvents =>
        \A n \in 1 .. Len(log[i]) : log[i][n].answer \in { None, Some(HTTP_CONFLICT) }

\* the operator process dies while an event is still to be delivered again
CrashRestarted(i) == Crash(i) /\ events[i] < MaxEvents
CreateServiceRecovering(i) == CreateService(i) /\ Recovered(i)'
CreateConfigMapRecovering(i) == CreateConfigMap(i) /\ Recovered(i)'
CreateStatefulSetRecovering(i) == CreateStatefulSet(i) /\ Recovered(i)'

NextLive ==
    \E i \in Instances :
        \/ NewCreate(i)
        \/ Retry(i)
        \/ Restart(i)
        \/ Redeliver(i)
        \/ CrashRestarted(i)
        \/ CreateServiceRecovering(i)
        \/ CreateConfigMapRecovering(i)
        \/ CreateStatefulSetRecovering(i)

\* The create handler under an API server that recovers: a started handler
\* runs on, a handler that raised is invoked again, an interrupted event is
\* delivered again after the restart.
SpecLive == Init /\ [][NextLive]_vars /\ WF_vars(NextLive)

\* one workload pod is imported with some HOSTNAME, HEADLESS_SERVICE and mounted file
InitMesh ==
    /\ InitCommon
    /\ events = [ i \in Instances |-> MaxEvents ]
    /\ \E h \in Hostnames : \E e \in ServiceEnvs : \E f \in ConfigFiles :
           server = [ ServerOff EXCEPT !.hostname = h, !.env_service = e, !.file = f,
                                       !.pc = "import" ]

NextMesh ==
    \/ DefineCluster
    \/ LoadConfig
    \/ PingNext
    \/ Wait
    \/ NextPass
    \/ Reload
    \/ Remount

\* the workload pod alone
SpecMesh == InitMesh /\ [][NextMesh]_vars

\* =================================================================== claims
\* the dependents of instance i, as the claims name them
SvcKey(i) == << "Service", i[1], i[2] \o << "-", "s", "v", "c" >> >>
StsKey(i) == << "StatefulSet", i[1], i[2] \o << "-", "s", "t", "s" >> >>
CmKey(i) == << "ConfigMap", i[1], i[2] \o << "-", "c", "m" >> >>
Dependents(i) == { SvcKey(i), CmKey(i), StsKey(i) }

\* the handler has ended by returning or by raising
Completed(i) == pc[i] \in { "returned", "raised" }
AnswersOf(i) == { log[i][n].answer : n \in 1 .. Len(log[i]) }
\* object k is in store c2 exactly as it is in store c1
SameObject(c1, c2, k) ==
    /\ (k \in DOMAIN c1) <=> (k \in DOMAIN c2)
    /\ k \in DOMAIN c1 => c1[k] = c2[k]
\* text has pat as a substring
Contains(text, pat) ==
    \E k \in 1 .. (Len(text) - Len(pat) + 1) : SubSeq(text, k, k + Len(pat) - 1) = pat

\* C1: idempotent create.  When the create handler runs a second time in
\* succession for the same spec (the event is delivered again after the
\* first run returned) and no call fails other than with AlreadyExists, the
\* second run returns without error, leaves the store as it found it, and the
\* store holds exactly one Service name-svc, one ConfigMap name-cm and one
\* StatefulSet name-sts.
C1_IdempotentCreate ==
    \A i \in Instances :
        ( /\ kind[i] = "create"
          /\ cause[i] = "duplicate"
          /\ Completed(i)
          /\ AnswersOf(i) \subseteq { None, Some(409) } )
        => /\ pc[i] = "returned"
           /\ result[i] # None
           /\ cluster = pre[i]
           /\ DOMAIN cluster = Dependents(i)
           /\ \A n \in 1 .. Len(log[i]) : log[i][n].answer = Some(409)

C1_Witness ==
    \E i \in Instances :
        /\ kind[i] = "create" /\ cause[i] = "duplicate" /\ pc[i] = "returned"
        /\ Len(log[i]) = 3
        /\ AnswersOf(i) = { Some(409) }
        /\ DOMAIN cluster = Dependents(i)

\* C2: partial-create recovery.  Whatever subset of the three dependents
\* exists when the create handler starts, a run whose calls answer only
\* Created or AlreadyExists makes three calls, creates exactly the objects
\* that were missing, leaves the existing ones as they were, returns without
\* error and ends with all three present.
C2_PartialCreateRecovery ==
    \A i \in Instances :
        ( /\ kind[i] = "create"
          /\ Completed(i)
          /\ AnswersOf(i) \subseteq { None, Some(409) } )
        => /\ pc[i] = "returned"
           /\ Len(log[i]) = 3
           /\ { log[i][n].key : n \in 1 .. 3 } = Dependents(i)
           /\ Dependents(i) \subseteq DOMAIN cluster
           /\ \A n \in 1 .. 3 :
                (log[i][n].answer = None) <=> (log[i][n].key \notin DOMAIN pre[i])
           /\ \A k \in DOMAIN pre[i] : SameObject(pre[i], cluster, k)
           /\ DOMAIN cluster = DOMAIN pre[i] \cup Dependents(i)

\* Service and ConfigMap present, StatefulSet absent at the start
C2_Witness ==
    \E i \in Instances :
        /\ kind[i] = "create" /\ pc[i] = "returned"
        /\ DOMAIN pre[i] = { SvcKey(i), CmKey(i) }
        /\ Len(log[i]) = 3
        /\ log[i][1].answer = Some(409) /\ log[i][2].answer = Some(409)
        /\ log[i][3].answer = None /\ log[i][3].key = StsKey(i)
        /\ StsKey(i) \in DOMAIN cluster

\* C3: create fails fast.  When a create call of the create handler answers
\* with an error other than 409, it is the last call of the pass, the handler
\* ends by raising, so that the event can be delivered to it again, it returns
\* no names, and every object an earlier call of the pass created is still in
\* the store as created.
C3_CreateFailsFast ==
    \A i \in Instances :
        kind[i] = "create" =>
            \A n \in 1 .. Len(log[i]) :
                log[i][n].answer \notin { None, Some(409) }
                => /\ n = Len(log[i])
                   /\ pc[i] = "raised"
                   /\ events[i] < MaxEvents => ENABLED Retry(i)
                   /\ result[i] = None
                   /\ \A m \in 1 .. (n - 1) :
                        log[i][m].answer = None
                        => /\ log[i][m].key \in DOMAIN cluster
                           /\ cluster[log[i][m].key] = log[i][m].body
                   /\ \A k \in DOMAIN pre[i] : SameObject(pre[i], cluster, k)

\* the ConfigMap call fails after the Service was created
C3_Witness ==
    \E i \in Instances :
        /\ kind[i] = "create" /\ pc[i] = "raised"
        /\ Len(log[i]) = 2
        /\ log[i][1].answer = None
        /\ log[i][2].answer = Some(500)
        /\ SvcKey(i) \in DOMAIN cluster
        /\ CmKey(i) \notin DOMAIN cluster

\* C4: delete is idempotent and total.  After the delete handler returns from
\* a pass in which no call failed other than with NotFound, none of the three
\* dependents exists; and a delete pass that starts when none of them exists
\* never raises and leaves the store as it found it.
C4_DeleteIdempotentTotal ==
    \A i \in Instances :
        kind[i] = "delete" =>
            /\ ( pc[i] = "returned" /\ AnswersOf(i) \subseteq { None, Some(404) } )
               => Dependents(i) \cap DOMAIN cluster = {}
            /\ Dependents(i) \cap DOMAIN pre[i] = {}
               => /\ cluster = pre[i]
                  /\ pc[i] # "raised"
                  /\ None \notin AnswersOf(i)

\* a second delete in succession, with every call answered NotFound
C4_Witness ==
    \E i \in Instances :
        /\ kind[i] = "delete" /\ cause[i] = "duplicate" /\ pc[i] = "returned"
        /\ Dependents(i) \cap DOMAIN pre[i] = {}
        /\ Len(log[i]) = 3
        /\ AnswersOf(i) = { Some(404) }
        /\ cluster = pre[i]

\* C5: delete always completes.  Whatever the three delete calls answer, the
\* delete handler never raises and is never retried; when it returns it has
\* called delete for the Service, the StatefulSet and the ConfigMap, in that
\* order, and the custom resource is gone; an object whose delete failed is
\* in the store as it was before the pass.
C5_DeleteAlwaysCompletes ==
    \A i \in Instances :
        kind[i] = "delete" =>
            /\ pc[i] # "raised"
            /\ cause[i] # "retry"
            /\ ~ ENABLED Retry(i)
            /\ pc[i] = "returned"
               => /\ [ n \in 1 .. Len(log[i]) |-> log[i][n].key ]
                       = << SvcKey(i), StsKey(i), CmKey(i) >>
                  /\ phase[i] = "absent"
            /\ \A n \in 1 .. Len(log[i]) :
                 /\ log[i][n].op = "delete"
                 /\ log[i][n].answer # None => SameObject(pre[i], cluster, log[i][n].key)

\* the StatefulSet delete fails: the custom resource is gone, the StatefulSet stays
C5_Witness ==
    \E i \in Instances :
        /\ kind[i] = "delete" /\ pc[i] = "returned"
        /\ log[i][1].answer = None
        /\ log[i][2].answer = Some(500)
        /\ log[i][3].answer = None
        /\ DOMAIN cluster = { StsKey(i) }
        /\ phase[i] = "absent"

\* C6: update propagates to both dependents.  After the update handler
\* returns from a pass whose spec has replicas = n and whose two patch calls
\* both succeeded, the StatefulSet's replica count is n and the ConfigMap's
\* text contains "replicas: n"; it contains "timer: t" when the spec has
\* timer = t, and the StatefulSet's image is the spec's image when it has one.
C6_UpdatePropagates ==
    \A i \in Instances :
        ( /\ kind[i] = "update"
          /\ pc[i] = "returned"
          /\ AnswersOf(i) = { None }
          /\ spec[i].replicas # None )
        => /\ StsKey(i) \in DOMAIN cluster
           /\ CmKey(i) \in DOMAIN cluster
           /\ cluster[StsKey(i)].replicas = spec[i].replicas
           /\ Contains(cluster[CmKey(i)].data["config.yaml"],
                       << "r", "e", "p", "l", "i", "c", "a", "s", ":", " " >>
                       \o Digits(spec[i].replicas[1]) \o << "\n" >>)
           /\ spec[i].timer # None
              => Contains(cluster[CmKey(i)].data["config.yaml"],
                          << "t", "i", "m", "e", "r", ":", " " >>
                          \o Digits(spec[i].timer[1]) \o << "\n" >>)
           /\ spec[i].image # None
              => cluster[StsKey(i)].image = spec[i].image

\* replicas changed from 2 to 4, both patches applied
C6_Witness ==
    \E i \in Instances :
        /\ kind[i] = "update" /\ pc[i] = "returned"
        /\ AnswersOf(i) = { None }
        /\ "replicas" \in diff[i]
        /\ spec[i].replicas = << 4 >>
        /\ pre[i][StsKey(i)].replicas = << 2 >>
        /\ cluster[StsKey(i)].replicas = << 4 >>
        /\ Contains(cluster[CmKey(i)].data["config.yaml"],
                    << "r", "e", "p", "l", "i", "c", "a", "s", ":", " ", "4", "\n" >>)

\* the replica count of the StatefulSet and the text of the ConfigMap in store c
ReplicaCountIn(c, i) == c[StsKey(i)].replicas
ConfigTextIn(c, i) == c[CmKey(i)].data["config.yaml"]

\* C7 as stated: an update in which only image changed leaves the replica
\* count and the ConfigMap's text as they were before the handler ran, in
\* every state the handler can be invoked in.  Stated for the specs that
\* name replicas and timer, so that a violation owes nothing to the values
\* update_fn reads for a field the spec omits.
C7_ImageOnlyUntouched ==
    \A i \in Instances :
        ( /\ kind[i] = "update" /\ diff[i] = { "image" }
          /\ spec[i].replicas # None /\ spec[i].timer # None )
        => /\ ( StsKey(i) \in DOMAIN pre[i] /\ StsKey(i) \in DOMAIN cluster )
              => ReplicaCountIn(cluster, i) = ReplicaCountIn(pre[i], i)
           /\ ( CmKey(i) \in DOMAIN pre[i] /\ CmKey(i) \in DOMAIN cluster )
              => ConfigTextIn(cluster, i) = ConfigTextIn(pre[i], i)

\* C7 as amended: an update in which only image changed leaves the replica
\* count as it was before the handler ran when that count was the spec's
\* replicas as update_fn reads it, and leaves the ConfigMap's text as it was
\* when that text was the one update_fn serializes from the spec's replicas
\* and timer; a count or a text that differed is overwritten by a patch that
\* succeeds and kept by one that fails.
C7_ImageOnlyKeepsAgreeing ==
    \A i \in Instances :
        ( kind[i] = "update" /\ diff[i] = { "image" } )
        => /\ StsKey(i) \in DOMAIN pre[i]
              => /\ StsKey(i) \in DOMAIN cluster
                 /\ ReplicaCountIn(pre[i], i) = spec[i].replicas
                    => ReplicaCountIn(cluster, i) = ReplicaCountIn(pre[i], i)
                 /\ ReplicaCountIn(cluster, i) \in { ReplicaCountIn(pre[i], i), spec[i].replicas }
                 /\ ( Len(log[i]) >= 1 /\ log[i][1].answer # None )
                    => ReplicaCountIn(cluster, i) = ReplicaCountIn(pre[i], i)
           /\ CmKey(i) \in DOMAIN pre[i]
              => /\ CmKey(i) \in DOMAIN cluster
                 /\ ConfigTextIn(pre[i], i) = ConfigText(spec[i].replicas, spec[i].timer)
                    => ConfigTextIn(cluster, i) = ConfigTextIn(pre[i], i)
                 /\ ConfigTextIn(cluster, i) \in
                        { ConfigTextIn(pre[i], i), ConfigText(spec[i].replicas, spec[i].timer) }
                 /\ ( Len(log[i]) >= 2 /\ log[i][2].answer # None )
                    => ConfigTextIn(cluster, i) = ConfigTextIn(pre[i], i)

\* only the image changed, both patches applied, count and text as before
C7_Witness ==
    \E i \in Instances :
        /\ kind[i] = "update" /\ diff[i] = { "image" } /\ pc[i] = "returned"
        /\ AnswersOf(i) = { None }
        /\ spec[i].replicas = << 4 >>
        /\ ReplicaCountIn(pre[i], i) = << 4 >>
        /\ ReplicaCountIn(cluster, i) = << 4 >>
        /\ ConfigTextIn(cluster, i) = ConfigTextIn(pre[i], i)
        /\ cluster[StsKey(i)].image # pre[i][StsKey(i)].image

\* C8: update patches are isolated.  The update handler never raises; once
\* the StatefulSet patch has been answered, whatever the answer, the handler
\* is at the ConfigMap patch or past it; each patch carries the body built
\* from the spec alone; and each object is the merge of that body into what
\* it was when its own patch succeeded and is what it was when its own patch
\* failed, whatever the other patch answered.
C8_PatchesIsolated ==
    \A i \in Instances :
        kind[i] = "update" =>
            /\ pc[i] # "raised"
            /\ Len(log[i]) = 1 => pc[i] \in { "patch_cm", "crashed" }
            /\ pc[i] = "returned" => Len(log[i]) = 2
            /\ Len(log[i]) >= 1
               => /\ log[i][1].op = "patch" /\ log[i][1].key = StsKey(i)
                  /\ log[i][1].body = [ replicas |-> spec[i].replicas, image |-> spec[i].image ]
                  /\ log[i][1].answer = None
                     => cluster[StsKey(i)] =
                            [ pre[i][StsKey(i)] EXCEPT !.replicas = spec[i].replicas,
                                                       !.image = spec[i].image ]
                  /\ log[i][1].answer # None => SameObject(pre[i], cluster, StsKey(i))
            /\ Len(log[i]) >= 2
               => /\ log[i][2].op = "patch" /\ log[i][2].key = CmKey(i)
                  /\ log[i][2].body.data["config.yaml"] = ConfigText(spec[i].replicas, spec[i].timer)
                  /\ log[i][2].answer = None
                     => cluster[CmKey(i)] =
                            [ pre[i][CmKey(i)] EXCEPT !.data = log[i][2].body.data ]
                  /\ log[i][2].answer # None => SameObject(pre[i], cluster, CmKey(i))

\* the StatefulSet patch fails, the ConfigMap patch is still made and applied
C8_Witness ==
    \E i \in Instances :
        /\ kind[i] = "update" /\ pc[i] = "returned"
        /\ log[i][1].answer = Some(500)
        /\ StsKey(i) \in DOMAIN cluster
        /\ log[i][2].answer = None
        /\ cluster[CmKey(i)] # pre[i][CmKey(i)]
        /\ cluster[StsKey(i)] = pre[i][StsKey(i)]

\* C9: update swallows patch errors.  The update handler never ends by
\* raising and is never retried after an error; it returns normally, with no
\* value; and an object whose patch call answered with an error is in the
\* store as it was before the pass.
C9_UpdateSwallowsErrors ==
    \A i \in Instances :
        kind[i] = "update" =>
            /\ pc[i] # "raised"
            /\ cause[i] # "retry"
            /\ ~ ENABLED Retry(i)
            /\ result[i] = None
            /\ ( Len(log[i]) = 2 /\ pc[i] # "crashed" ) => pc[i] = "returned"
            /\ \A n \in 1 .. Len(log[i]) :
                 log[i][n].answer # None => SameObject(pre[i], cluster, log[i][n].key)

\* the ConfigMap patch fails on an existing ConfigMap: the handler returns,
\* the StatefulSet is patched and the ConfigMap keeps its text
C9_Witness ==
    \E i \in Instances :
        /\ kind[i] = "update" /\ pc[i] = "returned"
        /\ log[i][1].answer = None
        /\ log[i][2].answer = Some(500)
        /\ CmKey(i) \in DOMAIN cluster
        /\ cluster[CmKey(i)] = pre[i][CmKey(i)]
        /\ ConfigTextIn(cluster, i) # ConfigText(spec[i].replicas, spec[i].timer)

\* C10: a Conflict answer (409) to a patch call of the update handler is
\* followed, in the same pass, by another patch call for the same object, so
\* that when the handler returns every patch that met a Conflict has been
\* tried again.
C10_ConflictRetried ==
    \A i \in Instances :
        ( kind[i] = "update" /\ pc[i] = "returned" )
        => \A n \in 1 .. Len(log[i]) :
               log[i][n].answer = Some(409)
               => \E m \in (n + 1) .. Len(log[i]) :
                      log[i][m].op = "patch" /\ log[i][m].key = log[i][n].key

\* one of the decimal digits
IsDigit(ch) == \E d \in 1 .. 10 : DigitChar[d] = ch
\* text reads "replicas: <integer>\ntimer: <integer>\n"
IntegerForm(text) ==
    /\ SelectSeq(text, LAMBDA ch : ~ IsDigit(ch))
         = << "r", "e", "p", "l", "i", "c", "a", "s", ":", " ", "\n",
              "t", "i", "m", "e", "r", ":", " ", "\n" >>
    /\ ~ Contains(text, << " ", "\n" >>)

\* C11: defaults are applied uniformly.  For every spec, whatever fields it
\* omits, the StatefulSet patch of the update handler carries the replica
\* count and the image that the create handler puts in its StatefulSet
\* manifest for that spec (1 and the baseline image for omitted fields), the
\* ConfigMap patch carries the text the create handler puts in its ConfigMap
\* manifest (replicas 1, timer 30 for omitted fields), and that text reads
\* "replicas: <integer>" / "timer: <integer>".
C11_DefaultsUniform ==
    \A i \in Instances :
        kind[i] = "update" =>
            \A n \in 1 .. Len(log[i]) :
                /\ log[i][n].key = StsKey(i)
                   => /\ log[i][n].body.replicas =
                           (IF spec[i].replicas = None THEN << 1 >> ELSE spec[i].replicas)
                      /\ log[i][n].body.image =
                           (IF spec[i].image = None THEN << "6y6en/ping-pong:latest" >>
                            ELSE spec[i].image)
                /\ log[i][n].key = CmKey(i)
                   => /\ log[i][n].body.data["config.yaml"] =
                           ConfigText(IF spec[i].replicas = None THEN << 1 >> ELSE spec[i].replicas,
                                      IF spec[i].timer = None THEN << 30 >> ELSE spec[i].timer)
                      /\ IntegerForm(log[i][n].body.data["config.yaml"])

\* the keys of the calls of the current pass of instance i, in order
KeysOf(i) == [ n \in 1 .. Len(log[i]) |-> log[i][n].key ]
\* s is an initial part of t
IsPrefix(s, t) == Len(s) <= Len(t) /\ SubSeq(t, 1, Len(s)) = s

\* C12: deterministic naming.  For every resource name n, in whatever
\* namespace and with whatever spec, the create handler addresses the Service
\* n-svc, the ConfigMap n-cm and the StatefulSet n-sts of the resource's
\* namespace, the update handler the StatefulSet n-sts and the ConfigMap
\* n-cm, the delete handler the Service n-svc, the StatefulSet n-sts and the
\* ConfigMap n-cm: an object the create handler creates is one the update
\* handler patches or the delete handler deletes.  The create handler
\* returns these names.
C12_DeterministicNaming ==
    \A i \in Instances :
        /\ kind[i] = "create"
           => /\ IsPrefix(KeysOf(i), << SvcKey(i), CmKey(i), StsKey(i) >>)
              /\ \A n \in 1 .. Len(log[i]) :
                    /\ log[i][n].op = "create"
                    /\ << log[i][n].body.kind, log[i][n].body.namespace, log[i][n].body.name >>
                         = log[i][n].key
              /\ pc[i] = "returned"
                 => result[i] = << [ svc_name |-> i[2] \o << "-", "s", "v", "c" >>,
                                     sts_name |-> i[2] \o << "-", "s", "t", "s" >>,
                                     cm_name |-> i[2] \o << "-", "c", "m" >> ] >>
        /\ kind[i] = "update"
           => IsPrefix(KeysOf(i), << StsKey(i), CmKey(i) >>)
        /\ kind[i] = "delete"
           => IsPrefix(KeysOf(i), << SvcKey(i), StsKey(i), CmKey(i) >>)
        /\ \A k \in DOMAIN cluster :
              \E j \in Instances : k \in Dependents(j) /\ k[2] = j[1]

\* two resources of one name in two namespaces: the delete handler of one has
\* deleted its bar-sts while the create handler of the other has created its own
C12_Witness ==
    \E i \in Instances : \E j \in Instances \ { i } :
        /\ i[2] = j[2] /\ i[1] # j[1]
        /\ kind[i] = "delete" /\ pc[i] = "returned"
        /\ log[i][2].answer = None
        /\ kind[j] = "create" /\ pc[j] = "returned"
        /\ log[j][3].answer = None
        /\ log[j][3].key[3] = log[i][2].key[3]
        /\ StsKey(j) \in DOMAIN cluster
        /\ StsKey(i) \notin DOMAIN cluster

\* the objects the current pass of instance i has addressed
Touched(i) == { log[i][n].key : n \in 1 .. Len(log[i]) }
\* store c narrowed to the keys in K
Restrict(c, K) == [ k \in DOMAIN c \cap K |-> c[k] ]
\* the store after one logged call, answered as logged, is applied to store c
ApplyCall(c, call) ==
    CASE call.op = "create" -> ApplyCreate(c, call.body, call.answer)
      [] call.op = "patch" -> ApplyPatch(c, call.key, call.body, call.answer)
      [] call.op = "delete" -> ApplyDelete(c, call.key, call.answer)
\* the answers the store c can give to a call
AnswersTo(c, call) ==
    CASE call.op = "create" -> CreateAnswers(c, call.key)
      [] call.op = "patch" -> PatchAnswers(c, call.key)
      [] call.op = "delete" -> DeleteAnswers(c, call.key)
RECURSIVE Replay(_, _)
\* the store after the calls of l, answered as logged, are applied to store c in order
Replay(c, l) == IF l = << >> THEN c ELSE Replay(ApplyCall(c, Head(l)), Tail(l))

\* C13: instance isolation under concurrency.  When the handlers of two
\* distinct resource instances interleave their API calls, the objects one
\* pass addresses are none of those the other addresses, and each instance's
\* objects are, at every moment, what its own calls alone make of what they
\* were when its pass started: every answer it got is one its own objects
\* account for, and no call of the other instance shows in them.
C13_InstanceIsolation ==
    \A i \in Instances :
        /\ \A j \in Instances \ { i } : Touched(i) \cap Touched(j) = {}
        /\ Restrict(cluster, Touched(i)) = Replay(Restrict(pre[i], Touched(i)), log[i])
        /\ \A n \in 1 .. Len(log[i]) :
              log[i][n].answer
                \in AnswersTo(Replay(Restrict(pre[i], Touched(i)), SubSeq(log[i], 1, n - 1)),
                              log[i][n])

\* the create pass of one instance ran from start to end while the delete
\* pass of another, of another name in the same namespace, removed its objects
C13_Witness ==
    \E i \in Instances : \E j \in Instances \ { i } :
        /\ i[1] = j[1]
        /\ kind[i] = "delete" /\ pc[i] = "returned" /\ AnswersOf(i) = { None }
        /\ kind[j] = "create" /\ pc[j] = "returned" /\ AnswersOf(j) = { None }
        /\ DOMAIN pre[j] = Dependents(i)
        /\ DOMAIN pre[i] \cap Dependents(j) = { SvcKey(j) }
        /\ DOMAIN cluster = Dependents(j)

\* C14: label invariant.  In every reachable state a StatefulSet the operator
\* created has selector labels equal to its pod template labels and to the
\* selector of the Service of the same resource, all of them {app: name}; a
\* pass of the update handler leaves these labels as they were.
C14_LabelInvariant ==
    \A i \in Instances :
        /\ StsKey(i) \in DOMAIN cluster
           => /\ cluster[StsKey(i)].selector = [ app |-> i[2] ]
              /\ cluster[StsKey(i)].template_labels = cluster[StsKey(i)].selector
              /\ SvcKey(i) \in DOMAIN cluster
                 => cluster[SvcKey(i)].selector = cluster[StsKey(i)].selector
        /\ SvcKey(i) \in DOMAIN cluster => cluster[SvcKey(i)].selector = [ app |-> i[2] ]
        /\ ( kind[i] = "update" /\ StsKey(i) \in DOMAIN pre[i] /\ StsKey(i) \in DOMAIN cluster )
           => /\ cluster[StsKey(i)].selector = pre[i][StsKey(i)].selector
              /\ cluster[StsKey(i)].template_labels = pre[i][StsKey(i)].template_labels
              /\ cluster[StsKey(i)].labels = pre[i][StsKey(i)].labels

\* the update handler has patched a StatefulSet that stands beside its Service
C14_Witness ==
    \E i \in Instances :
        /\ kind[i] = "update" /\ pc[i] = "returned"
        /\ log[i][1].answer = None
        /\ cluster[StsKey(i)] # pre[i][StsKey(i)]
        /\ SvcKey(i) \in DOMAIN cluster
        /\ cluster[StsKey(i)].template_labels = [ app |-> << "f", "o", "o" >> ]
        /\ cluster[SvcKey(i)].selector = [ app |-> << "f", "o", "o" >> ]

\* the name of pod k of the StatefulSet of instance name foo
PodName(k) == << "f", "o", "o", "-", "s", "t", "s", "-" >> \o Digits(k)
\* the address of pod j as another pod of the same StatefulSet reaches it
PeerUrl(j) ==
    << "h", "t", "t", "p", ":", "/", "/" >> \o PodName(j)
    \o (IF server.env_service = None THEN << >>
        ELSE << ".", "f", "o", "o", "-", "s", "v", "c" >>)
    \o << "/", "p", "i", "n", "g" >>

\* C15: when a pass of the ping loop of the pod with ordinal k is over, having
\* read the replica count r, the addresses it has requested are those of the
\* ordinals 0..r-1 other than k, each one once and in rising order; its own
\* address is never among them, and during the pass the ordinals below the
\* loop index other than k are the ones addressed so far.
C15_MeshAddressing ==
    \A k \in 0 .. MaxPods :
        (server.hostname = PodName(k) /\ server.pc \in { "for", "waited", "blocked" }) =>
            LET r == server.replicas.int
                upto == IF server.pc = "for" THEN server.i ELSE r
                peers == SelectSeq([ n \in 1 .. upto |-> n - 1 ], LAMBDA j : j # k)
            IN  /\ server.replicas.type = "int"
                /\ server.pinged = [ n \in 1 .. Len(peers) |-> PeerUrl(peers[n]) ]
                /\ { server.pinged[n] : n \in 1 .. Len(server.pinged) }
                     = { PeerUrl(j) : j \in (0 .. (upto - 1)) \ { k } }
                /\ \A n \in 1 .. Len(server.pinged) : server.pinged[n] # PeerUrl(k)

\* a pass of pod 1 with three replicas is over and has addressed pods 0 and 2
C15_Witness ==
    /\ server.hostname = PodName(1)
    /\ server.pc = "waited"
    /\ server.replicas = IntVal(3)
    /\ server.pinged = << PeerUrl(0), PeerUrl(2) >>

\* a create pass of instance i has returned and its three objects exist
Converged(i) ==
    /\ kind[i] = "create"
    /\ pc[i] = "returned"
    /\ result[i] # None
    /\ Dependents(i) \subseteq DOMAIN cluster

\* C16: under an API server that recovers and an event source that delivers
\* the Create event again after every pass that raised or was interrupted,
\* every Create event is followed by a Create pass that returns its result
\* with the Service, the ConfigMap and the StatefulSet all present; and no
\* pass calls the API more than three times or addresses an object twice,
\* so the repetition is the event source's alone.
C16_EventualConvergence ==
    /\ [](\A i \in Instances :
            /\ Len(log[i]) <= 3
            /\ \A m, n \in 1 .. Len(log[i]) : log[i][m].key = log[i][n].key => m = n)
    /\ \A i \in Instances :
          (kind[i] = "create" /\ pc[i] \in Running \cup { "raised", "crashed" }) ~> Converged(i)

\* a pass invoked again after an error has returned with all three objects
\* present, one of which the failed pass had left missing
C16_Witness ==
    /\ Converged(I0)
    /\ cause[I0] = "retry"
    /\ ~ (Dependents(I0) \subseteq DOMAIN pre[I0])
    /\ \E n \in 1 .. Len(log[I0]) : log[I0][n].answer = Some(HTTP_CONFLICT)

\* C17: a create pass calls create for the Service, then for the ConfigMap,
\* then for the StatefulSet, whatever cuts it short; so when nothing but
\* create passes has run since the cluster was empty, whole or cut short by an
\* error or a crash, an existing StatefulSet has its ConfigMap beside it and
\* an existing ConfigMap has its Service beside it.
C17_CreateOrdering ==
    \A i \in Instances :
        /\ IsPrefix(KeysOf(i), << SvcKey(i), CmKey(i), StsKey(i) >>)
        /\ \A n \in 1 .. Len(log[i]) : log[i][n].op = "create"
        /\ StsKey(i) \in DOMAIN cluster => CmKey(i) \in DOMAIN cluster
        /\ CmKey(i) \in DOMAIN cluster => SvcKey(i) \in DOMAIN cluster

\* a pass was cut short after the ConfigMap: the Service and the ConfigMap
\* exist, the StatefulSet does not
C17_Witness ==
    /\ kind[I0] = "create"
    /\ pc[I0] \in { "raised", "crashed" }
    /\ KeysOf(I0) \in { << SvcKey(I0), CmKey(I0) >>, << SvcKey(I0), CmKey(I0), StsKey(I0) >> }
    /\ SvcKey(I0) \in DOMAIN cluster
    /\ CmKey(I0) \in DOMAIN cluster
    /\ StsKey(I0) \notin DOMAIN cluster

\* C18: from the moment the update handler is invoked, the cluster holds the
\* objects it held at that moment and no others; the Service is as it was;
\* every call the handler has made is a patch of the StatefulSet or of the
\* ConfigMap; a patch answered NotFound addressed an object that was absent
\* and is absent still; and the handler never ends by raising: after its two
\* patches it has returned.
C18_UpdatePatchesInPlace ==
    \A i \in Instances :
        kind[i] = "update" =>
            /\ DOMAIN cluster = DOMAIN pre[i]
            /\ SameObject(pre[i], cluster, SvcKey(i))
            /\ \A n \in 1 .. Len(log[i]) :
                  /\ log[i][n].op = "patch"
                  /\ log[i][n].key \in { StsKey(i), CmKey(i) }
                  /\ log[i][n].answer = Some(HTTP_NOT_FOUND) =>
                        /\ log[i][n].key \notin DOMAIN pre[i]
                        /\ log[i][n].key \notin DOMAIN cluster
            /\ \A k \in { StsKey(i), CmKey(i) } :
                  k \notin DOMAIN pre[i] =>
                      \A n \in 1 .. Len(log[i]) :
                          log[i][n].key = k => log[i][n].answer # None
            /\ pc[i] # "raised"
            /\ Len(log[i]) = 2 => pc[i] = "returned"

\* an update ran without the StatefulSet: its patch was answered NotFound,
\* the ConfigMap was patched, the handler returned and the StatefulSet is
\* absent still
C18_Witness ==
    /\ kind[I0] = "update"
    /\ pc[I0] = "returned"
    /\ StsKey(I0) \notin DOMAIN pre[I0]
    /\ StsKey(I0) \notin DOMAIN cluster
    /\ CmKey(I0) \in DOMAIN cluster
    /\ log[I0][1].answer = Some(HTTP_NOT_FOUND)
    /\ log[I0][2].answer = None

\* C19: from the moment the create handler is invoked, every object the
\* cluster held at that moment is held still and is exactly as it was; a
\* create answered AlreadyExists addressed such an object; and a pass whose
\* three creates were answered Created or AlreadyExists has returned its
\* result, whatever the objects it found hold.
C19_CreateKeepsExisting ==
    \A i \in Instances :
        kind[i] = "create" =>
            /\ \A k \in DOMAIN pre[i] : k \in DOMAIN cluster /\ cluster[k] = pre[i][k]
            /\ \A n \in 1 .. Len(log[i]) :
                  log[i][n].answer = Some(HTTP_CONFLICT) =>
                      /\ log[i][n].key \in DOMAIN pre[i]
                      /\ cluster[log[i][n].key] = pre[i][log[i][n].key]
            /\ (Len(log[i]) = 3 /\ AnswersOf(i) \subseteq { None, Some(HTTP_CONFLICT) }) =>
                  (pc[i] = "returned" /\ result[i] # None)

\* a create pass found a ConfigMap left behind by a delete that failed in
\* part, holding another text than the one the present spec implies, and
\* returned with that text in place
C19_Witness ==
    /\ kind[I0] = "create"
    /\ pc[I0] = "returned"
    /\ cause[I0] = "new"
    /\ log[I0][2].answer = Some(HTTP_CONFLICT)
    /\ CmKey(I0) \in DOMAIN pre[I0]
    /\ ConfigTextIn(cluster, I0) = ConfigTextIn(pre[I0], I0)
    /\ ConfigTextIn(cluster, I0)
         # ConfigText(SpecGet(spec[I0], "replicas", Some(DefaultReplicas)),
                      SpecGet(spec[I0], "timer", Some(DefaultTimer)))

\* a replica count of the operator as the workload's value of it
ValOf(v) == IF v = None THEN NoneVal ELSE IntVal(v[1])
\* the replicas value a pod reads from the ConfigMap of instance i in store c
RecordedReplicas(c, i) == DictGet(YamlMapping(ConfigTextIn(c, i)), ReplicasKey)
\* the pass of instance i has called on object k and the call succeeded
AnsweredCreatedOrPatched(i, k) ==
    \E n \in 1 .. Len(log[i]) : log[i][n].key = k /\ log[i][n].answer = None

====
